---- MODULE Spec2Model ----
(***************************************************************************)
(* Model of the LEDMatrix weather plugin (src/manager.py, WeatherPlugin):  *)
(* the update scheduler (update, _fetch_weather, _process_forecast_data)   *)
(* and the display-mode cycler (display, _on_mode_changed, the three       *)
(* _display_* routines with their fingerprints).                           *)
(*                                                                         *)
(* Conventions.  Python None is the record None; a Python list is a        *)
(* sequence and None in a list-valued attribute is NoList.  Temperatures   *)
(* are integers in tenths of a degree so that round() and int() can be     *)
(* modelled.  Times are seconds; time.time() is the variable now.          *)
(* last_mode_switch (lines 140, 454) is written and never read; it is left *)
(* out.  The variables rendered and ev are history variables: they record  *)
(* what the last call did and are read by no action.                       *)
(***************************************************************************)
EXTENDS Integers, Sequences, FiniteSets, TLC

VARIABLES
    now,                  \* time.time()
    api_key,              \* config: "valid", "" or the placeholder
    update_interval,      \* config, seconds
    show_current, show_hourly, show_daily,   \* config flags
    modes,                \* list of enabled modes built by __init__
    weather_data, forecast_data, hourly_forecast, daily_forecast,
    last_update,
    consecutive_errors, last_error_time, error_backoff_time,
    last_error_log_time,
    last_weather_state, last_hourly_state, last_daily_state,
    current_display_mode, current_mode_index,
    cache,                \* cache_manager entry under the key 'weather'
    image,                \* display_manager.image: what is on the canvas
    rendered,             \* history: mode whose routine the last display() ran
    ev                    \* history: what the last call did

configVars == <<api_key, update_interval, show_current, show_hourly, show_daily, modes>>
dataVars   == <<weather_data, forecast_data, hourly_forecast, daily_forecast>>
schedVars  == <<last_update, consecutive_errors, last_error_time, error_backoff_time,
                last_error_log_time>>
modeVars   == <<last_weather_state, last_hourly_state, last_daily_state,
                current_display_mode, current_mode_index>>
pluginVars == <<dataVars, schedVars, modeVars>>
vars == <<now, configVars, dataVars, schedVars, modeVars, cache, image, rendered, ev>>

-----------------------------------------------------------------------------
(* Bounds of the model *)

\* The clock runs from StartTime to StartTime + MaxElapsed.
MaxElapsed == 2400

\* The clock of the fair scheduler runs to StartTime + MaxElapsedLive.
MaxElapsedLive == 5400

\* _process_forecast_data is applied to payloads of up to MaxHourly hourly and
\* MaxDaily daily entries.
MaxHourly == 7
MaxDaily == 6

-----------------------------------------------------------------------------
(* Program constants *)

BaseBackoff == 60
MaxBackoff == 3600
max_consecutive_errors == 5
error_log_throttle == 300
DefaultUpdateInterval == 1800
HourlyKeep == 5
DailyKeep == 3
HourlyFingerprintLen == 3
DailyFingerprintLen == 4
HourlyShown == 4
DailyShown == 3
PlaceholderKey == "YOUR_OPENWEATHERMAP_API_KEY"

\* time.time() is seconds since 1970: at construction it already exceeds every
\* interval the plugin compares against, while last_update,
\* last_error_time and last_error_log_time start at 0.
StartTime == 10000
TickSteps == {300, 1800}
DisplayTickSteps == {1800}
LiveTickSteps == {1800}

None == [none |-> TRUE]
NoList == <<None>>

\* truthiness of a dict-or-None value and of a list-or-None value
Truthy(x) == x # None
TruthyList(l) == l # NoList /\ l # <<>>

Min(a, b) == IF a < b THEN a ELSE b

\* Python round() on a value given in tenths: round half to even.
Round(t) ==
    LET q == t \div 10
        r == t % 10
    IN  IF r < 5 THEN q
        ELSE IF r > 5 THEN q + 1
        ELSE IF q % 2 = 0 THEN q ELSE q + 1

-----------------------------------------------------------------------------
(* API payloads the environment can return *)

HourEntry(dt, temp, main, icon) == [dt |-> dt, temp |-> temp, main |-> main, icon |-> icon]
DayEntry(dt, tmax, tmin, main, icon) ==
    [dt |-> dt, max |-> tmax, min |-> tmin, main |-> main, icon |-> icon]
\* an entry without its 'temp' key: reading it raises KeyError
BadHourEntry(dt) == [dt |-> dt, main |-> "Rain", icon |-> "10d"]

Current(temp, hum, main, icon) ==
    [temp |-> temp, humidity |-> hum, pressure |-> 1013, uvi |-> 3,
     main |-> main, icon |-> icon, wind_speed |-> 5, wind_deg |-> 270]
\* a current block without its 'humidity' key
BadCurrent == [temp |-> 700, pressure |-> 1013, uvi |-> 3,
               main |-> "Clear", icon |-> "01d", wind_speed |-> 5, wind_deg |-> 270]

HoursA == << HourEntry(13, 715, "Clear", "01d"), HourEntry(14, 725, "Clear", "01d"),
             HourEntry(15, 734, "Clouds", "03d"), HourEntry(16, 722, "Clouds", "03d"),
             HourEntry(17, 706, "Rain", "10d"), HourEntry(18, 688, "Rain", "10n") >>
\* HoursA with a different fourth entry
HoursB == [HoursA EXCEPT ![4] = HourEntry(16, 655, "Rain", "10d")]
\* HoursA with a different first entry
HoursC == [HoursA EXCEPT ![1] = HourEntry(13, 802, "Clear", "01d")]

DaysA == << DayEntry(100, 780, 610, "Clear", "01d"), DayEntry(101, 765, 605, "Clouds", "03d"),
            DayEntry(102, 702, 588, "Rain", "10d"), DayEntry(103, 695, 575, "Rain", "10d"),
            DayEntry(104, 745, 590, "Clear", "01d") >>
DaysB == [DaysA EXCEPT ![2] = DayEntry(101, 801, 622, "Clear", "01d")]

Payload(cur, hourly, daily) == [current |-> cur, hourly |-> hourly, daily |-> daily]

PFull       == Payload(Current(715, 40, "Clear", "01d"), HoursA, DaysA)
\* PFull with another temperature that rounds to the same degree and another
\* fourth hourly entry
PAlt        == Payload(Current(724, 40, "Clear", "01d"), HoursB, DaysA)
PChanged    == Payload(Current(655, 71, "Rain", "10d"), HoursC, DaysB)
\* no hourly entries and only today's daily entry
PNoForecast == Payload(Current(715, 40, "Clear", "01d"), <<>>, SubSeq(DaysA, 1, 1))
PBadHour    == Payload(Current(655, 71, "Rain", "10d"),
                       [HoursC EXCEPT ![2] = BadHourEntry(14)], DaysB)
PBadCurrent == Payload(BadCurrent, HoursA, DaysA)

\* the payloads the scheduler is exercised with
SchedPayloads == {PFull, PBadHour, PBadCurrent}

\* the payloads the display is exercised with
DisplayPayloads == {PFull, PAlt, PChanged, PNoForecast}

-----------------------------------------------------------------------------
(* _process_forecast_data *)

\* strftime('%I:00 %p').lstrip('0') of an hour-of-day: the 12-hour clock label
HourLabel(dt) ==
    LET h == dt % 24
    IN  <<IF h % 12 = 0 THEN 12 ELSE h % 12, IF h < 12 THEN "AM" ELSE "PM">>

\* strftime('%a') of a day number: the weekday
DayName(dt) == dt % 7

HourOk(e) == "temp" \in DOMAIN e
DayOk(e) == "max" \in DOMAIN e /\ "min" \in DOMAIN e

HourRecord(e) ==
    [hour |-> HourLabel(e.dt), temp |-> Round(e.temp), condition |-> e.main, icon |-> e.icon]

DayRecord(e) ==
    [date |-> DayName(e.dt), date_str |-> e.dt,
     temp_high |-> Round(e.max), temp_low |-> Round(e.min),
     condition |-> e.main, icon |-> e.icon]

\* forecast_data.get('hourly', [])[:5]
HourlySlice(fd) == SubSeq(fd.hourly, 1, Min(HourlyKeep, Len(fd.hourly)))

\* the slice that keeps today's entry
DailySliceWithToday(fd) == SubSeq(fd.daily, 1, Min(DailyKeep, Len(fd.daily)))

\* forecast_data.get('daily', [])[1:4]
DailySlice(fd) == SubSeq(fd.daily, 2, Min(DailyKeep + 1, Len(fd.daily)))

\* number of leading entries of s that the loop converts before one raises
RECURSIVE GoodPrefix(_, _)
GoodPrefix(s, ok) ==
    IF s = <<>> THEN 0
    ELSE IF ok[1] THEN 1 + GoodPrefix(Tail(s), Tail(ok)) ELSE 0

\* Result of _process_forecast_data(fd) started with the lists hf and df:
\* the lists are emptied and then appended to entry by entry, so that an
\* entry that raises leaves the list built so far.
ProcessForecast(fd, hf, df) ==
    IF ~Truthy(fd) THEN [raised |-> FALSE, hourly |-> hf, daily |-> df]
    ELSE
    LET hs == HourlySlice(fd)
        ds == DailySlice(fd)
        hn == GoodPrefix(hs, [i \in 1..Len(hs) |-> HourOk(hs[i])])
        dn == GoodPrefix(ds, [i \in 1..Len(ds) |-> DayOk(ds[i])])
        hdone == [i \in 1..hn |-> HourRecord(hs[i])]
        ddone == [i \in 1..dn |-> DayRecord(ds[i])]
    IN  IF hn < Len(hs) THEN [raised |-> TRUE, hourly |-> hdone, daily |-> df]
        ELSE IF dn < Len(ds) THEN [raised |-> TRUE, hourly |-> hdone, daily |-> ddone]
        ELSE [raised |-> FALSE, hourly |-> hdone, daily |-> ddone]

-----------------------------------------------------------------------------
(* _fetch_weather *)

CurrentOk(p) == "humidity" \in DOMAIN p.current /\ Len(p.daily) >= 1

\* the dict stored in self.weather_data by a fresh fetch
Snapshot(p) ==
    [main |-> [temp |-> p.current.temp,
               temp_max |-> p.daily[1].max,
               temp_min |-> p.daily[1].min,
               humidity |-> p.current.humidity,
               pressure |-> p.current.pressure,
               uvi |-> p.current.uvi],
     weather |-> [main |-> p.current.main, icon |-> p.current.icon],
     wind |-> [speed |-> p.current.wind_speed]]

\* the two requests issued in the opposite order
FetchResultSwapped(raised, wd, fd, hf, df, c, http, fromCache) ==
    [raised |-> raised, weather_data |-> wd, forecast_data |-> fd,
     hourly_forecast |-> hf, daily_forecast |-> df, cache |-> c,
     http |-> IF Len(http) = 2 THEN <<http[2], http[1]>> ELSE http,
     fromCache |-> fromCache]

FetchResult(raised, wd, fd, hf, df, c, http, fromCache) ==
    [raised |-> raised, weather_data |-> wd, forecast_data |-> fd,
     hourly_forecast |-> hf, daily_forecast |-> df, cache |-> c,
     http |-> http, fromCache |-> fromCache]

\* The fresh-fetch part of _fetch_weather, entered with weather_data = wd and
\* forecast_data = fd.  geo is the geocoding outcome ("raise", "empty", "ok"),
\* onecall the One Call outcome (None for a failed request, else a payload).
FetchFresh(wd, fd, geo, onecall) ==
    IF geo = "raise"
    THEN FetchResult(TRUE, wd, fd, hourly_forecast, daily_forecast, cache, <<"geo">>, FALSE)
    ELSE IF geo = "empty"
    THEN FetchResult(FALSE, wd, fd, hourly_forecast, daily_forecast, cache, <<"geo">>, FALSE)
    ELSE IF onecall = None \/ ~CurrentOk(onecall)
    THEN FetchResult(TRUE, wd, fd, hourly_forecast, daily_forecast, cache,
                     <<"geo", "onecall">>, FALSE)
    ELSE
    LET snap == Snapshot(onecall)
        r == ProcessForecast(onecall, hourly_forecast, daily_forecast)
    IN  IF r.raised
        THEN FetchResult(TRUE, snap, onecall, r.hourly, r.daily, cache,
                         <<"geo", "onecall">>, FALSE)
        ELSE FetchResult(FALSE, snap, onecall, r.hourly, r.daily,
                         [current |-> snap, forecast |-> onecall],
                         <<"geo", "onecall">>, FALSE)

\* _fetch_weather: cached is what cache_manager.get returned (None on a miss).
FetchWeather(cached, geo, onecall) ==
    IF Truthy(cached)
    THEN LET wd == cached.current
             fd == cached.forecast
         IN  IF Truthy(wd) /\ Truthy(fd)
             THEN LET r == ProcessForecast(fd, hourly_forecast, daily_forecast)
                  IN  FetchResult(r.raised, wd, fd, r.hourly, r.daily, cache, <<>>, TRUE)
             ELSE FetchFresh(wd, fd, geo, onecall)
    ELSE FetchFresh(weather_data, forecast_data, geo, onecall)

-----------------------------------------------------------------------------
(* update *)

NoEvent ==
    [op |-> "init", skip |-> "", reset |-> FALSE, fetched |-> FALSE, raised |-> FALSE,
     http |-> <<>>, fromCache |-> FALSE, logged |-> FALSE,
     display_mode |-> "", force_clear |-> FALSE,
     routine |-> "None", view |-> "None", cmp |-> "None", cleared |-> FALSE,
     replaced |-> FALSE, refreshes |-> 0, drawRaised |-> FALSE, switched |-> FALSE,
     preEqual |-> FALSE]

\* the interval measured from the last error instead of the last update
IntervalNotElapsedSinceError == now - last_error_time < update_interval

\* line 223
IntervalNotElapsed == now - last_update < update_interval

\* line 227
ErrorLimitReached == consecutive_errors >= max_consecutive_errors

\* the window measured against the base backoff instead of the current one
InBackoffWindowBase == now - last_error_time < BaseBackoff

\* the operands of the subtraction swapped
InBackoffWindowSwapped == last_error_time - now < error_backoff_time

\* line 228
InBackoffWindow == now - last_error_time < error_backoff_time

\* the placeholder key taken for a real one
KeyInvalidEmptyOnly == api_key = ""

\* line 237
KeyInvalid == api_key = "" \/ api_key = PlaceholderKey

\* the cap of two hours instead of one
NextBackoffCap2h(b) == Min(b * 2, 7200)

\* linear instead of exponential growth
NextBackoffLinear(b) == Min(b + BaseBackoff, MaxBackoff)

\* line 251
NextBackoff(b) == Min(b * 2, MaxBackoff)

\* the throttle compared with >= instead of >
LogDueInclusive == now - last_error_log_time >= error_log_throttle

\* line 254
LogDue == now - last_error_log_time > error_log_throttle

\* why update() returns before the try block: line 224, 230 or 239
SkipReason ==
    IF IntervalNotElapsed THEN "interval"
    ELSE IF ErrorLimitReached /\ InBackoffWindow THEN "backoff"
    ELSE IF KeyInvalid THEN "key"
    ELSE "none"

\* lines 231-234: the error state after the backoff check has passed
ErrorsAfterCheck == IF ErrorLimitReached THEN 0 ELSE consecutive_errors

\* the reset of line 234 left out
BackoffAfterCheckKept == error_backoff_time

BackoffAfterCheck == IF ErrorLimitReached THEN BaseBackoff ELSE error_backoff_time

\* update() returning at line 224, 230 or 239
UpdateSkip ==
    /\ SkipReason # "none"
    /\ ev' = [NoEvent EXCEPT !.op = "update", !.skip = SkipReason,
                             !.reset = (SkipReason = "key" /\ ErrorLimitReached)]
    /\ consecutive_errors' =
          IF SkipReason = "key" THEN ErrorsAfterCheck ELSE consecutive_errors
    /\ error_backoff_time' =
          IF SkipReason = "key" THEN BackoffAfterCheck ELSE error_backoff_time
    /\ UNCHANGED <<now, configVars, dataVars, last_update, last_error_time,
                   last_error_log_time, modeVars, cache, image, rendered>>

\* update() reaching the try block at line 242
UpdateFetch(hit, geo, onecall) ==
    /\ SkipReason = "none"
    /\ LET errs == ErrorsAfterCheck
           back == BackoffAfterCheck
           r == FetchWeather(IF hit THEN cache ELSE None, geo, onecall)
       IN  /\ weather_data' = r.weather_data
           /\ forecast_data' = r.forecast_data
           /\ hourly_forecast' = r.hourly_forecast
           /\ daily_forecast' = r.daily_forecast
           /\ cache' = r.cache
           /\ IF ~r.raised
              THEN /\ last_update' = now
                   /\ consecutive_errors' = 0
                   /\ error_backoff_time' = back
                   /\ UNCHANGED <<last_error_time, last_error_log_time>>
                   /\ ev' = [NoEvent EXCEPT !.op = "update", !.fetched = TRUE,
                                            !.reset = ErrorLimitReached,
                                            !.http = r.http, !.fromCache = r.fromCache]
              ELSE /\ consecutive_errors' = errs + 1
                   /\ last_error_time' = now
                   /\ error_backoff_time' = NextBackoff(back)
                   /\ last_error_log_time' = IF LogDue THEN now ELSE last_error_log_time
                   /\ UNCHANGED last_update
                   /\ ev' = [NoEvent EXCEPT !.op = "update", !.fetched = TRUE,
                                            !.reset = ErrorLimitReached,
                                            !.raised = TRUE, !.http = r.http,
                                            !.fromCache = r.fromCache, !.logged = LogDue]
    /\ UNCHANGED <<now, configVars, modeVars, image, rendered>>

\* What the environment answers to one _fetch_weather: <<hit, geo, onecall>>
\* with hit = the cache lookup returns the stored entry, geo = outcome of the
\* geocoding request ("raise", "empty", "ok"), onecall = outcome of the One
\* Call request (None = the request fails, else the payload returned).
\* The scheduler is exercised with every outcome.
SchedInputs ==
    {<<TRUE, "raise", None>>}
    \cup {<<FALSE, g, None>> : g \in {"raise", "empty", "ok"}}
    \cup {<<FALSE, "ok", p>> : p \in SchedPayloads}

\* The display is exercised with a network that answers.
DisplayInputs ==
    {<<TRUE, "ok", PFull>>} \cup {<<FALSE, "ok", p>> : p \in DisplayPayloads}

Update(inputs) ==
    \/ UpdateSkip
    \/ \E inp \in inputs : UpdateFetch(inp[1], inp[2], inp[3])

\* the caller lets time pass between calls
Tick(steps, limit) ==
    /\ \E d \in steps :
          /\ now + d <= StartTime + limit
          /\ now' = now + d
    /\ ev' = [NoEvent EXCEPT !.op = "tick"]
    /\ UNCHANGED <<configVars, dataVars, schedVars, modeVars, cache, image, rendered>>

\* cleanup(), lines 802-806
Cleanup ==
    /\ weather_data' = None
    /\ forecast_data' = None
    /\ ev' = [NoEvent EXCEPT !.op = "cleanup"]
    /\ UNCHANGED <<now, configVars, hourly_forecast, daily_forecast, schedVars, modeVars,
                   cache, image, rendered>>

-----------------------------------------------------------------------------
(* fingerprints: _get_weather_state, _get_hourly_state, _get_daily_state *)

Prefix(s, n) == SubSeq(s, 1, Min(n, Len(s)))

WeatherState(wd) ==
    IF ~Truthy(wd) THEN None
    ELSE [temp |-> Round(wd.main.temp), condition |-> wd.weather.main,
          humidity |-> wd.main.humidity, uvi |-> wd.main.uvi]

\* f['temp'] is already an integer there, so round() returns it unchanged
HourlyState(hf) ==
    IF ~TruthyList(hf) THEN NoList
    ELSE LET p == Prefix(hf, HourlyFingerprintLen)
         IN  [i \in 1..Len(p) |->
                [hour |-> p[i].hour, temp |-> p[i].temp, condition |-> p[i].condition]]

DailyState(df) ==
    IF ~TruthyList(df) THEN NoList
    ELSE LET p == Prefix(df, DailyFingerprintLen)
         IN  [i \in 1..Len(p) |->
                [date |-> p[i].date, temp_high |-> p[i].temp_high,
                 temp_low |-> p[i].temp_low, condition |-> p[i].condition]]

-----------------------------------------------------------------------------
(* what the drawing routines put on the canvas *)

\* Python int() of a value given in tenths: truncation toward zero
IntOf(t) == IF t >= 0 THEN t \div 10 ELSE -((-t) \div 10)

\* _get_wind_direction for whole degrees: round(degrees / 45) % 8
WindDirection(deg) ==
    LET q == deg \div 45
        r == deg % 45
        idx == (IF 2 * r > 45 THEN q + 1 ELSE q) % 8
    IN  <<"N", "NE", "E", "SE", "S", "SW", "W", "NW">>[idx + 1]

BlankImage == [view |-> "blank", data |-> <<>>]
NoDataImage == [view |-> "nodata", data |-> <<>>]

\* lines 492-570
WeatherImage(wd) ==
    [view |-> "weather",
     data |-> << [temp |-> IntOf(wd.main.temp),
                  condition |-> wd.weather.main,
                  icon |-> wd.weather.icon,
                  temp_high |-> IntOf(wd.main.temp_max),
                  temp_low |-> IntOf(wd.main.temp_min),
                  uvi |-> wd.main.uvi,
                  humidity |-> wd.main.humidity,
                  wind_speed |-> wd.wind.speed,
                  wind_dir |-> WindDirection(IF "deg" \in DOMAIN wd.wind
                                             THEN wd.wind.deg ELSE 0)] >>]

\* lines 656-692
HourlyImage(hf) ==
    LET p == Prefix(hf, HourlyShown)
    IN  [view |-> "hourly_forecast",
         data |-> [i \in 1..Len(p) |->
                     [hour |-> p[i].hour, icon |-> p[i].icon, temp |-> p[i].temp]]]

\* lines 724-763
DailyImage(df) ==
    LET p == Prefix(df, DailyShown)
    IN  [view |-> "daily_forecast",
         data |-> [i \in 1..Len(p) |->
                     [date |-> p[i].date, icon |-> p[i].icon,
                      temp_low |-> p[i].temp_low, temp_high |-> p[i].temp_high]]]

-----------------------------------------------------------------------------
(* display *)

Range(s) == {s[i] : i \in 1..Len(s)}

\* the index of the first mode whatever the mode asked for
IndexOfFirst(s, m) == 0

\* self.modes.index(m), 0-based
IndexOf(s, m) == (CHOOSE i \in 1..Len(s) : s[i] = m /\ \A j \in 1..(i - 1) : s[j] # m) - 1

\* _on_mode_changed without the reset of the fingerprint
OnModeChangedKeep(new_mode) ==
    [lw |-> last_weather_state, lh |-> last_hourly_state, ld |-> last_daily_state,
     mode |-> new_mode, switched |-> new_mode # current_display_mode]

\* _on_mode_changed(new_mode): the fingerprints and current_display_mode after it
OnModeChanged(new_mode) ==
    IF new_mode = current_display_mode
    THEN [lw |-> last_weather_state, lh |-> last_hourly_state,
          ld |-> last_daily_state, mode |-> current_display_mode, switched |-> FALSE]
    ELSE [lw |-> IF new_mode \notin {"hourly_forecast", "daily_forecast"}
                 THEN None ELSE last_weather_state,
          lh |-> IF new_mode = "hourly_forecast" THEN NoList ELSE last_hourly_state,
          ld |-> IF new_mode = "daily_forecast" THEN NoList ELSE last_daily_state,
          mode |-> new_mode, switched |-> TRUE]

Unchanged ==
    [lw |-> last_weather_state, lh |-> last_hourly_state,
     ld |-> last_daily_state, mode |-> current_display_mode, switched |-> FALSE]

\* the index stops at the last mode instead of wrapping
NextIndexNoWrap(i) == Min(i + 1, Len(modes) - 1)

\* line 415
NextIndex(i) == (i + 1) % Len(modes)

\* lines 395-423: the mode display() selects, the index and what
\* _on_mode_changed did.  display_mode = "" stands for None.
SelectMode(display_mode, force_clear) ==
    IF display_mode # "" /\ display_mode \in Range(modes)
    THEN LET requested_index == IndexOf(modes, display_mode)
             current_mode == modes[requested_index + 1]
         IN  IF current_mode # current_display_mode
             THEN [current_mode |-> current_mode, index |-> requested_index,
                   st |-> OnModeChanged(current_mode)]
             ELSE [current_mode |-> current_mode, index |-> current_mode_index,
                   st |-> Unchanged]
    ELSE IF current_display_mode = "None"
    THEN [current_mode |-> modes[current_mode_index + 1], index |-> current_mode_index,
          st |-> OnModeChanged(modes[current_mode_index + 1])]
    ELSE IF force_clear
    THEN [current_mode |-> modes[NextIndex(current_mode_index) + 1],
          index |-> NextIndex(current_mode_index),
          st |-> OnModeChanged(modes[NextIndex(current_mode_index) + 1])]
    ELSE [current_mode |-> modes[current_mode_index + 1], index |-> current_mode_index,
          st |-> Unchanged]

\* lines 426-435: the routine display() calls for current_mode
Routine(current_mode) ==
    IF current_mode = "hourly_forecast" /\ show_hourly THEN "hourly_forecast"
    ELSE IF current_mode = "daily_forecast" /\ show_daily THEN "daily_forecast"
    ELSE "weather"

\* the check for missing data left out
HasDataAlways(routine) == TRUE

\* the data a routine needs is there (lines 636 and 705; display() has
\* checked weather_data before)
HasData(routine) ==
    IF routine = "hourly_forecast" THEN TruthyList(hourly_forecast)
    ELSE IF routine = "daily_forecast" THEN TruthyList(daily_forecast)
    ELSE Truthy(weather_data)

Fingerprint(routine) ==
    IF routine = "hourly_forecast" THEN HourlyState(hourly_forecast)
    ELSE IF routine = "daily_forecast" THEN DailyState(daily_forecast)
    ELSE WeatherState(weather_data)

FullImage(routine) ==
    IF routine = "hourly_forecast" THEN HourlyImage(hourly_forecast)
    ELSE IF routine = "daily_forecast" THEN DailyImage(daily_forecast)
    ELSE WeatherImage(weather_data)

LastOf(routine, st) ==
    IF routine = "hourly_forecast" THEN st.lh
    ELSE IF routine = "daily_forecast" THEN st.ld
    ELSE st.lw

\* the comparison never succeeds
FingerprintUnchangedNever(routine, st) == Fingerprint(routine) = None

\* lines 479, 643, 711
FingerprintUnchanged(routine, st) == Fingerprint(routine) = LastOf(routine, st)

RenderResult(img, last, view, cmp, cleared, replaced, refreshes, drawRaised) ==
    [image |-> img, last |-> last, view |-> view, cmp |-> cmp, cleared |-> cleared,
     replaced |-> replaced, refreshes |-> refreshes, drawRaised |-> drawRaised]

\* the fingerprint recorded before the drawing instead of after it
RenderRecordsFirst(routine, st, drawFails) ==
    IF ~HasData(routine)
    THEN RenderResult(NoDataImage, LastOf(routine, st), "nodata", "None",
                      FALSE, TRUE, 1, FALSE)
    ELSE IF FingerprintUnchanged(routine, st)
    THEN RenderResult(image, LastOf(routine, st), "None", "equal", FALSE, FALSE, 1, FALSE)
    ELSE IF drawFails
    THEN RenderResult(BlankImage, Fingerprint(routine), "None", "differ",
                      TRUE, FALSE, 0, TRUE)
    ELSE RenderResult(FullImage(routine), Fingerprint(routine), routine, "differ",
                      TRUE, TRUE, 1, FALSE)

\* One of _display_current_weather, _display_hourly_forecast and
\* _display_daily_forecast, run with the fingerprints st; drawFails = the
\* drawing code raises after the display was cleared.
Render(routine, st, drawFails) ==
    IF ~HasData(routine)
    THEN RenderResult(NoDataImage, LastOf(routine, st), "nodata", "None",
                      FALSE, TRUE, 1, FALSE)
    ELSE IF FingerprintUnchanged(routine, st)
    THEN RenderResult(image, LastOf(routine, st), "None", "equal", FALSE, FALSE, 1, FALSE)
    ELSE IF drawFails
    THEN RenderResult(BlankImage, LastOf(routine, st), "None", "differ",
                      TRUE, FALSE, 0, TRUE)
    ELSE RenderResult(FullImage(routine), Fingerprint(routine), routine, "differ",
                      TRUE, TRUE, 1, FALSE)

Display(display_mode, force_clear, drawFails) ==
    /\ IF ~Truthy(weather_data)
       THEN /\ image' = NoDataImage
            /\ ev' = [NoEvent EXCEPT !.op = "display", !.display_mode = display_mode,
                                     !.force_clear = force_clear, !.view = "nodata",
                                     !.replaced = TRUE, !.refreshes = 1]
            /\ UNCHANGED <<modeVars, rendered>>
       ELSE LET sel == SelectMode(display_mode, force_clear)
                routine == Routine(sel.current_mode)
                r == Render(routine, sel.st, drawFails)
            IN  /\ current_mode_index' = sel.index
                /\ current_display_mode' = sel.st.mode
                /\ last_weather_state' = IF routine = "weather" THEN r.last ELSE sel.st.lw
                /\ last_hourly_state' =
                      IF routine = "hourly_forecast" THEN r.last ELSE sel.st.lh
                /\ last_daily_state' =
                      IF routine = "daily_forecast" THEN r.last ELSE sel.st.ld
                /\ image' = r.image
                /\ rendered' = routine
                /\ ev' = [NoEvent EXCEPT !.op = "display", !.display_mode = display_mode,
                                         !.force_clear = force_clear,
                                         !.routine = routine,
                                         !.view = r.view, !.cmp = r.cmp,
                                         !.cleared = r.cleared, !.replaced = r.replaced,
                                         !.refreshes = r.refreshes,
                                         !.drawRaised = r.drawRaised,
                                         !.switched = sel.st.switched,
                                         !.preEqual =
                                            (HasData(routine) /\
                                             Fingerprint(routine) = LastOf(routine, Unchanged))]
    /\ UNCHANGED <<now, configVars, dataVars, schedVars, cache>>

ModeArgs == {"", "weather", "hourly_forecast", "daily_forecast", "radar"}

DisplayCall ==
    \E m \in ModeArgs, fc \in BOOLEAN, df \in BOOLEAN : Display(m, fc, df)

-----------------------------------------------------------------------------
(* __init__ *)

ModeOrder == <<"weather", "hourly_forecast", "daily_forecast">>

ShowFlag(m, sc, sh, sd) ==
    IF m = "weather" THEN sc ELSE IF m = "hourly_forecast" THEN sh ELSE sd

\* every mode listed whatever the flags say
BuildModesAll(sc, sh, sd) == ModeOrder

\* the default of lines 136-137 left out
BuildModesNoDefault(sc, sh, sd) ==
    SelectSeq(ModeOrder, LAMBDA m : ShowFlag(m, sc, sh, sd))

\* lines 127-137
BuildModes(sc, sh, sd) ==
    LET enabled == SelectSeq(ModeOrder, LAMBDA m : ShowFlag(m, sc, sh, sd))
    IN  IF enabled = <<>> THEN <<"weather">> ELSE enabled

InitPlugin(key, interval, sc, sh, sd) ==
    /\ now = StartTime
    /\ api_key = key
    /\ update_interval = interval
    /\ show_current = sc /\ show_hourly = sh /\ show_daily = sd
    /\ modes = BuildModes(sc, sh, sd)
    /\ weather_data = None /\ forecast_data = None
    /\ hourly_forecast = NoList /\ daily_forecast = NoList
    /\ last_update = 0
    /\ consecutive_errors = 0
    /\ last_error_time = 0
    /\ error_backoff_time = BaseBackoff
    /\ last_error_log_time = 0
    /\ last_weather_state = None /\ last_hourly_state = NoList /\ last_daily_state = NoList
    /\ current_display_mode = "None"
    /\ current_mode_index = 0
    /\ cache = None
    /\ image = BlankImage
    /\ rendered = "None"
    /\ ev = NoEvent

\* The scheduler with every display mode enabled (the defaults of lines 100-102).
InitSched ==
    \E key \in {"valid", "", PlaceholderKey}, interval \in {0, DefaultUpdateInterval} :
        InitPlugin(key, interval, TRUE, TRUE, TRUE)

NextSched == Tick(TickSteps, MaxElapsed) \/ Update(SchedInputs)

SpecSched == InitSched /\ [][NextSched]_vars

\* The scheduler driven by a caller that keeps calling update() while time
\* keeps advancing (spec section 5: an external caller periodically calls update).
NextSchedLive == Tick(LiveTickSteps, MaxElapsedLive) \/ Update(SchedInputs)

SpecSchedLive ==
    /\ InitSched
    /\ [][NextSchedLive]_vars
    /\ WF_vars(Tick(LiveTickSteps, MaxElapsedLive))
    /\ WF_vars(Update(SchedInputs))

\* The display cycler under every combination of enabled modes.
InitDisplay ==
    \E key \in {"valid", ""}, sc \in BOOLEAN, sh \in BOOLEAN, sd \in BOOLEAN :
        InitPlugin(key, DefaultUpdateInterval, sc, sh, sd)

NextDisplay ==
    \/ DisplayCall
    \/ Update(DisplayInputs)
    \/ Tick(DisplayTickSteps, MaxElapsed)
    \/ Cleanup

SpecDisplay == InitDisplay /\ [][NextDisplay]_vars

\* _process_forecast_data applied once to a well-formed One Call response with
\* n hourly and m daily entries; v shifts the temperatures, so that values
\* ending in .5 occur.
HourlyEntries(n, v) ==
    [i \in 1..n |-> HourEntry(8 + 2 * i, 700 + 15 * i + v,
                              IF i % 2 = 0 THEN "Clouds" ELSE "Clear",
                              IF i % 2 = 0 THEN "03d" ELSE "01d")]

DailyEntries(m, v) ==
    [i \in 1..m |-> DayEntry(100 + i, 800 - 15 * i + v, 600 + 15 * i + v,
                             IF i % 2 = 0 THEN "Rain" ELSE "Clear",
                             IF i % 2 = 0 THEN "10d" ELSE "01d")]

ProcessInputs ==
    {Payload(Current(715, 40, "Clear", "01d"), HourlyEntries(n, v), DailyEntries(m, v)) :
        n \in 0..MaxHourly, m \in 0..MaxDaily, v \in {0, 5}}

\* a freshly constructed plugin handed a response: the lists are not built yet
InitProcess ==
    /\ now = StartTime
    /\ api_key = "valid"
    /\ update_interval = DefaultUpdateInterval
    /\ show_current = TRUE /\ show_hourly = TRUE /\ show_daily = TRUE
    /\ modes = BuildModes(TRUE, TRUE, TRUE)
    /\ forecast_data \in ProcessInputs
    /\ weather_data = None
    /\ hourly_forecast = NoList /\ daily_forecast = NoList
    /\ last_update = 0
    /\ consecutive_errors = 0
    /\ last_error_time = 0
    /\ error_backoff_time = BaseBackoff
    /\ last_error_log_time = 0
    /\ last_weather_state = None /\ last_hourly_state = NoList /\ last_daily_state = NoList
    /\ current_display_mode = "None"
    /\ current_mode_index = 0
    /\ cache = None
    /\ image = BlankImage
    /\ rendered = "None"
    /\ ev = NoEvent

\* _process_forecast_data(forecast_data), as called at lines 269 and 325
Process ==
    /\ ev.op = "init"
    /\ LET r == ProcessForecast(forecast_data, hourly_forecast, daily_forecast)
       IN  /\ hourly_forecast' = r.hourly
           /\ daily_forecast' = r.daily
           /\ ev' = [NoEvent EXCEPT !.op = "process", !.raised = r.raised]
    /\ UNCHANGED <<now, configVars, weather_data, forecast_data, schedVars, modeVars,
                   cache, image, rendered>>

SpecProcess == InitProcess /\ [][Process]_vars

-----------------------------------------------------------------------------
(* Properties of the update scheduler *)

UpdateFetched == ev.op = "update" /\ ev.fetched
UpdateSucceeded == UpdateFetched /\ ~ev.raised
UpdateFailed == UpdateFetched /\ ev.raised

\* C1: after every update() call in which the fetch succeeds, error_backoff_time
\* equals its base value of 60 seconds, whatever failures preceded the success.
C1_BackoffBaseAfterSuccess ==
    UpdateSucceeded => error_backoff_time = BaseBackoff

\* C2: in every reachable state error_backoff_time is at least its base (60 s)
\* and at most its cap (3600 s).
C2_BackoffWithinBounds ==
    BaseBackoff <= error_backoff_time /\ error_backoff_time <= MaxBackoff

\* a failure has driven the backoff to its cap
C2_Witness == UpdateFailed /\ error_backoff_time = MaxBackoff

\* C3: an update() call made at time t with t - last_update < update_interval
\* does not invoke _fetch_weather and changes no plugin state.
C3_NoFetchBeforeInterval ==
    [][(ev'.op = "update" /\ now - last_update < update_interval)
         => (~ev'.fetched /\ UNCHANGED <<pluginVars, cache, image>>)]_vars

\* update() was called less than update_interval after a recorded success
C3_Witness ==
    /\ ev.op = "update" /\ ev.skip = "interval"
    /\ last_update > 0 /\ now - last_update < update_interval

\* C4 as stated: after a fetch that failed at time t, no later update() call
\* attempts a fetch before the backoff duration in effect after that failure has
\* elapsed since t.
C4_NoFetchWithinBackoff ==
    [][(ev'.op = "update" /\ ev'.fetched /\ consecutive_errors > 0)
         => now - last_error_time >= error_backoff_time]_vars

\* C4 amended: after a failure that brought consecutive_errors to
\* max_consecutive_errors, no later update() call attempts a fetch before
\* error_backoff_time has elapsed since that failure.
C4_NoFetchWithinBackoffAtLimit ==
    [][(ev'.op = "update" /\ ev'.fetched
          /\ consecutive_errors >= max_consecutive_errors)
         => now - last_error_time >= error_backoff_time]_vars

\* update() was called inside the window after the fifth failure and returned
C4_Witness ==
    /\ ev.op = "update" /\ ev.skip = "backoff"
    /\ consecutive_errors = max_consecutive_errors
    /\ now > last_error_time /\ now - last_error_time < error_backoff_time

\* C5 as stated: when the fetch raises, update() returns with consecutive_errors
\* one more than before the call, error_backoff_time = min(2 * previous, 3600),
\* last_error_time = the call time and last_update unchanged.
C5_FailureBookkeeping ==
    [][(ev'.op = "update" /\ ev'.raised)
         => /\ consecutive_errors' = consecutive_errors + 1
            /\ error_backoff_time' = Min(2 * error_backoff_time, MaxBackoff)
            /\ last_error_time' = now
            /\ last_update' = last_update]_vars

\* C5 amended: the counter and the backoff are incremented and doubled from the
\* values they have after the reset that an expired backoff window triggers
\* (0 and 60 when consecutive_errors had reached 5), from the previous values
\* otherwise.
C5_FailureBookkeepingAfterReset ==
    [][(ev'.op = "update" /\ ev'.raised)
         => /\ consecutive_errors' =
                 IF consecutive_errors >= max_consecutive_errors
                 THEN 1 ELSE consecutive_errors + 1
            /\ error_backoff_time' =
                 IF consecutive_errors >= max_consecutive_errors
                 THEN Min(2 * BaseBackoff, MaxBackoff)
                 ELSE Min(2 * error_backoff_time, MaxBackoff)
            /\ last_error_time' = now
            /\ last_update' = last_update]_vars

\* a fetch failed in the call that reset the error state after the window
C5_Witness ==
    /\ UpdateFailed /\ ev.reset
    /\ consecutive_errors = 1 /\ error_backoff_time = 2 * BaseBackoff
    /\ last_error_time = now

\* the caller still has time to wait for the longest backoff window
BeforeHorizon == now + MaxBackoff <= StartTime + MaxElapsedLive

\* C6: with a valid API key, after any finite sequence of failed fetches, a
\* caller that keeps calling update() while time advances sees a further fetch
\* attempt.
C6_FetchEventuallyRetried ==
    (~KeyInvalid /\ consecutive_errors > 0 /\ ~UpdateFetched /\ BeforeHorizon)
        ~> UpdateFetched

\* a fetch was attempted after the window that followed five failures
C6_Witness == UpdateFetched /\ ev.reset /\ ~KeyInvalid

\* C10: an update() call that ends in a failure leaves weather_data,
\* hourly_forecast and daily_forecast as they were before the call.
C10_FailureKeepsData ==
    [][(ev'.op = "update" /\ ev'.raised)
         => UNCHANGED <<weather_data, hourly_forecast, daily_forecast>>]_vars

-----------------------------------------------------------------------------
(* Properties of the display cycler *)

\* the enabled modes in configured order, from the show flags
EnabledModes ==
    SelectSeq(ModeOrder, LAMBDA m : ShowFlag(m, show_current, show_hourly, show_daily))

PositionIn(s, m) == CHOOSE i \in 1..Len(s) : s[i] = m

\* the mode that follows m in the enabled modes, the last followed by the first
Following(m) == EnabledModes[(PositionIn(EnabledModes, m) % Len(EnabledModes)) + 1]

LastState(routine) ==
    IF routine = "hourly_forecast" THEN last_hourly_state
    ELSE IF routine = "daily_forecast" THEN last_daily_state
    ELSE last_weather_state

\* C8: when the mode being rendered has a fingerprint equal to its last rendered
\* fingerprint, display() neither clears the display nor replaces the image and
\* calls update_display() exactly once.
C8_UnchangedFingerprintRefreshOnly ==
    [][(ev'.op = "display" /\ Truthy(weather_data) /\ ~ev'.switched
          /\ HasData(ev'.routine)
          /\ LastState(ev'.routine) = Fingerprint(ev'.routine))
         => /\ ~ev'.cleared /\ ~ev'.replaced
            /\ image' = image
            /\ ev'.refreshes = 1]_vars

\* a view was rendered again with the data it was last drawn from
C8_Witness ==
    /\ ev.op = "display" /\ ev.cmp = "equal" /\ ev.refreshes = 1
    /\ image.view = ev.routine

\* C9: a display() call that switches current_display_mode to another mode
\* clears the fingerprint of the new mode before rendering: if data for that
\* mode exists the call takes the full-redraw path, also when the data is what
\* was last rendered for that mode.
C9_SwitchForcesRedraw ==
    [][(ev'.op = "display" /\ current_display_mode' # current_display_mode
          /\ HasData(ev'.routine))
         => /\ ev'.routine = current_display_mode'
            /\ ev'.cmp = "differ" /\ ev'.cleared
            /\ ~ev'.drawRaised =>
                 /\ ev'.replaced /\ ev'.refreshes = 1
                 /\ image' = FullImage(ev'.routine)
                 /\ Fingerprint(ev'.routine) =
                      IF ev'.routine = "hourly_forecast" THEN last_hourly_state'
                      ELSE IF ev'.routine = "daily_forecast" THEN last_daily_state'
                      ELSE last_weather_state']_vars

\* the cycler came back to a mode whose data still had the fingerprint it was
\* last rendered with, and drew it in full
C9_Witness ==
    /\ ev.op = "display" /\ ev.switched /\ ev.preEqual
    /\ ev.cmp = "differ" /\ ev.cleared /\ ~ev.drawRaised
    /\ image = FullImage(ev.routine)

-----------------------------------------------------------------------------
(* Further properties of the update scheduler *)

\* C11 as stated: every update() call recorded as a successful refresh
\* performed exactly two HTTP requests, geocoding first, then One Call.
C11_TwoRequestsPerRefresh ==
    UpdateSucceeded => ev.http = <<"geo", "onecall">>

\* C11 amended: a refresh recorded as successful performed no request when the
\* data came from the cache, the geocoding request alone when it found no
\* coordinates (nothing is stored then), and otherwise exactly the geocoding
\* request followed by the One Call request.
C11_RequestsPerRefresh ==
    [][(ev'.op = "update" /\ ev'.fetched /\ ~ev'.raised)
         => IF ev'.fromCache THEN ev'.http = <<>>
            ELSE \/ ev'.http = <<"geo", "onecall">>
                 \/ /\ ev'.http = <<"geo">>
                    /\ UNCHANGED <<dataVars, cache>>]_vars

\* a refresh fetched a fresh snapshot with the two requests
C11_Witness ==
    /\ UpdateSucceeded /\ ~ev.fromCache
    /\ ev.http = <<"geo", "onecall">>
    /\ weather_data = Snapshot(forecast_data)
    /\ last_update = now

\* C12: with an empty or placeholder API key no update() call invokes the fetch
\* (no cache lookup, no HTTP request), and last_update, the error counter, the
\* backoff duration and the weather data never change.
C12_InvalidKeyDisablesFetch ==
    [][(api_key = "" \/ api_key = PlaceholderKey)
         => /\ ~ev'.fetched /\ ~ev'.fromCache /\ ev'.http = <<>>
            /\ UNCHANGED <<last_update, consecutive_errors, error_backoff_time,
                           dataVars, cache>>]_vars

\* update() was called with the placeholder key after the clock had advanced
C12_Witness ==
    /\ api_key = PlaceholderKey
    /\ ev.op = "update" /\ ev.skip = "key"
    /\ now > StartTime
    /\ last_update = 0 /\ weather_data = None

\* C15: two consecutive error reports of update() are more than
\* error_log_throttle seconds apart, and a failure inside that window does the
\* failure bookkeeping of the counter and the backoff without a report.
C15_ErrorLogThrottled ==
    [][/\ (ev'.op = "update" /\ ev'.raised)
            => IF now - last_error_log_time > error_log_throttle
               THEN ev'.logged /\ last_error_log_time' = now
               ELSE /\ ~ev'.logged
                    /\ last_error_log_time' = last_error_log_time
                    /\ consecutive_errors' # consecutive_errors
                    /\ error_backoff_time' =
                         Min(2 * (IF consecutive_errors >= max_consecutive_errors
                                  THEN BaseBackoff ELSE error_backoff_time),
                             MaxBackoff)
       /\ ev'.logged
            => /\ ev'.op = "update" /\ ev'.raised
               /\ now - last_error_log_time > error_log_throttle
       /\ (last_error_log_time' # last_error_log_time) => ev'.logged]_vars

\* a fetch failed exactly error_log_throttle seconds after the last report
\* and was not reported
C15_Witness ==
    /\ UpdateFailed /\ ~ev.logged
    /\ last_error_log_time > 0
    /\ now - last_error_log_time = error_log_throttle
    /\ last_error_time = now

\* C16: the snapshot stored by a successful fresh fetch carries the wind
\* direction reported by the API next to the wind speed.
C16_SnapshotHasWindDirection ==
    (UpdateSucceeded /\ ~ev.fromCache /\ ev.http = <<"geo", "onecall">>)
        => /\ "deg" \in DOMAIN weather_data.wind
           /\ weather_data.wind.deg = forecast_data.current.wind_deg

\* C17: once consecutive_errors has reached max_consecutive_errors, an update()
\* call made less than error_backoff_time after the last error performs no
\* fetch and changes no state; the first call after the window (and after the
\* update interval) resets consecutive_errors to 0 and error_backoff_time to 60
\* before it attempts the fetch.
C17_BackoffWindowThenReset ==
    [][(ev'.op = "update" /\ consecutive_errors >= max_consecutive_errors)
         => IF now - last_error_time < error_backoff_time
            THEN ~ev'.fetched /\ UNCHANGED <<pluginVars, cache, image>>
            ELSE (now - last_update >= update_interval)
                   => /\ ev'.fetched /\ ev'.reset
                      /\ consecutive_errors' = (IF ev'.raised THEN 1 ELSE 0)
                      /\ error_backoff_time' =
                           (IF ev'.raised THEN Min(2 * BaseBackoff, MaxBackoff)
                            ELSE BaseBackoff)]_vars

\* the fetch of the first call after the window succeeded
C17_Witness ==
    /\ UpdateSucceeded /\ ev.reset
    /\ consecutive_errors = 0 /\ error_backoff_time = BaseBackoff
    /\ last_error_time > 0 /\ now - last_error_time >= 2 * BaseBackoff

-----------------------------------------------------------------------------
(* Properties of _process_forecast_data *)

Max(a, b) == IF a > b THEN a ELSE b

\* C14: a payload with n hourly and m daily entries yields an hourly list of
\* min(n, 5) records, the first entries in payload order, and a daily list of
\* min(max(m - 1, 0), 3) records, the entries after today's in payload order,
\* each with the time label, rounded temperatures, condition and icon of its
\* source entry.
C14_ProcessedLists ==
    ev.op = "process" =>
        LET src == forecast_data
            n == Len(src.hourly)
            m == Len(src.daily)
        IN  /\ ~ev.raised
            /\ Len(hourly_forecast) = Min(n, 5)
            /\ Len(daily_forecast) = Min(Max(m - 1, 0), 3)
            /\ \A i \in 1..Len(hourly_forecast) :
                 hourly_forecast[i] =
                    [hour |-> HourLabel(src.hourly[i].dt),
                     temp |-> Round(src.hourly[i].temp),
                     condition |-> src.hourly[i].main,
                     icon |-> src.hourly[i].icon]
            /\ \A i \in 1..Len(daily_forecast) :
                 /\ daily_forecast[i].date = DayName(src.daily[i + 1].dt)
                 /\ daily_forecast[i].date_str = src.daily[i + 1].dt
                 /\ daily_forecast[i].temp_high = Round(src.daily[i + 1].max)
                 /\ daily_forecast[i].temp_low = Round(src.daily[i + 1].min)
                 /\ daily_forecast[i].condition = src.daily[i + 1].main
                 /\ daily_forecast[i].icon = src.daily[i + 1].icon

\* both lists were truncated
C14_Witness ==
    /\ ev.op = "process"
    /\ Len(forecast_data.hourly) > 5 /\ Len(forecast_data.daily) > 4
    /\ Len(hourly_forecast) = 5 /\ Len(daily_forecast) = 3
    /\ daily_forecast[1].date_str = forecast_data.daily[2].dt

-----------------------------------------------------------------------------
(* Further properties of the display cycler *)

\* C13: a display() call with no weather snapshot, or one that renders the
\* hourly (daily) mode while the hourly (daily) list is absent or empty, draws
\* the placeholder, refreshes the display and draws no data view.
C13_PlaceholderWhenDataMissing ==
    (/\ ev.op = "display"
     /\ \/ weather_data = None
        \/ ev.routine = "hourly_forecast" /\ hourly_forecast \in {NoList, <<>>}
        \/ ev.routine = "daily_forecast" /\ daily_forecast \in {NoList, <<>>})
        => /\ image = NoDataImage
           /\ ev.view = "nodata" /\ ev.replaced /\ ~ev.cleared
           /\ ev.refreshes = 1

\* the hourly mode was rendered with a snapshot but an empty hourly list
C13_Witness ==
    /\ ev.op = "display" /\ ev.routine = "hourly_forecast"
    /\ weather_data # None /\ hourly_forecast = <<>>
    /\ image = NoDataImage

C19_OnlyEnabledModesRendered ==
    (ev.op = "display" /\ ev.routine # "None")
        => IF EnabledModes = <<>>
           THEN ev.routine = "weather"
           ELSE ev.routine \in Range(EnabledModes)

\* an override naming a disabled mode was answered with an enabled one
C19_Witness ==
    /\ ev.op = "display" /\ ev.routine # "None"
    /\ ev.display_mode = "hourly_forecast" /\ ~show_hourly
    /\ ev.routine \in Range(EnabledModes)

\* C20: the list of enabled modes is non-empty, current_mode_index is within
\* it, and current_display_mode is unset or equal to modes[current_mode_index].
C20_ModeIndexConsistent ==
    /\ Len(modes) >= 1
    /\ 0 <= current_mode_index /\ current_mode_index < Len(modes)
    /\ current_display_mode = "None"
         \/ current_display_mode = modes[current_mode_index + 1]

\* an override moved the cycler to the last of three modes
C20_Witness ==
    /\ ev.op = "display" /\ ev.display_mode # "" /\ ev.switched
    /\ Len(modes) = 3 /\ current_mode_index = 2
    /\ current_display_mode = "daily_forecast"

-----------------------------------------------------------------------------
(* Properties that relate the recorded success to the data on display *)

\* C21: whenever update() has recorded a success (last_update advanced), a
\* weather snapshot is available: without cleanup() there is no reachable state
\* in which last_update has been advanced while weather_data is still unset.
C21_SuccessImpliesSnapshot ==
    last_update # 0 => weather_data # None

\* C22: the placeholder does not stay on screen once data is available: when
\* the display shows the placeholder (only display() changes the image, so the
\* last display() call that drew anything drew the placeholder) and the next
\* display() call renders a mode whose data is present, that call does a full
\* redraw of the data view instead of skipping it on a fingerprint match.
C22_PlaceholderReplaced ==
    [][(/\ image = NoDataImage
        /\ ev'.op = "display" /\ ev'.routine # "None" /\ ev'.view # "nodata")
         => /\ ev'.cmp = "differ" /\ ev'.cleared
            /\ image' # NoDataImage]_vars

\* C23: the hourly fingerprint covers every hourly entry that is drawn: when
\* the hourly view skips the redraw, each of the first min(4, n) entries of the
\* hourly list is as it was at the last completed redraw of that view.  The
\* image of that redraw is still on the display then, and it shows the hour
\* label and the temperature of each entry it was drawn from.
C23_FingerprintCoversDrawnHours ==
    (/\ ev.op = "display" /\ ev.routine = "hourly_forecast" /\ ev.cmp = "equal"
     /\ image.view = "hourly_forecast")
        => LET drawn == Prefix(hourly_forecast, HourlyShown)
           IN  /\ Len(image.data) = Len(drawn)
               /\ \A i \in 1..Len(drawn) :
                    /\ image.data[i].hour = drawn[i].hour
                    /\ image.data[i].temp = drawn[i].temp

\* the value of a fingerprint that is not set
Unset(routine) == IF routine = "weather" THEN None ELSE NoList

\* C24: a mode's fingerprint is recorded only after a full redraw of that mode
\* has completed and been pushed to the display.  When the drawing raises, the
\* fingerprint keeps the value it had when the routine was entered (unset
\* after a mode switch in that call, else its previous value), nothing is
\* pushed, and the next display() call of that mode with the same data attempts
\* the full redraw again.
C24_FingerprintOnlyAfterRedraw ==
    [][(ev'.op = "display" /\ ev'.routine # "None")
         => LET r == ev'.routine
                old == LastState(r)
                new == IF r = "hourly_forecast" THEN last_hourly_state'
                       ELSE IF r = "daily_forecast" THEN last_daily_state'
                       ELSE last_weather_state'
            IN  /\ ev'.drawRaised
                     => /\ new = (IF ev'.switched THEN Unset(r) ELSE old)
                        /\ ev'.refreshes = 0
                /\ (new # old /\ new # Unset(r))
                     => /\ ~ev'.drawRaised /\ ev'.cleared
                        /\ ev'.view = r /\ ev'.replaced /\ ev'.refreshes = 1
                        /\ image' = FullImage(r)
                        /\ new = Fingerprint(r)
                /\ (ev.op = "display" /\ ev.drawRaised /\ ev.routine = r)
                     => ev'.cmp = "differ" /\ ev'.cleared]_vars

\* the drawing raised for data that differs from the data of the last
\* completed redraw of the mode, and the older fingerprint is still recorded
C24_Witness ==
    /\ ev.op = "display" /\ ev.drawRaised /\ ~ev.switched
    /\ LastState(ev.routine) # Unset(ev.routine)
    /\ LastState(ev.routine) # Fingerprint(ev.routine)
    /\ image = BlankImage

====
